---- MODULE Spec2Model ----
(***************************************************************************)
(* Block-header wire codec, AuxPoW payload, header hashes and Merkle       *)
(* branch folding of wire/blockheader.go.                                  *)
(*                                                                         *)
(* Data representation                                                     *)
(*   byte            0..255                                                *)
(*   int32           an integer in -2^31 .. 2^31-1                         *)
(*   uint32          [hi, lo]: two 16-bit halves, value hi*2^16 + lo       *)
(*   int64 (seconds) [hi, lo]: lo a 16-bit half, hi any integer            *)
(*   chainhash.Hash  a sequence of HashSize bytes                          *)
(*   io.Reader       [err, r, buf, n, val]: first error, bytes unread,     *)
(*                   last bytes read, last count read, struct being filled *)
(*   io.Writer       [data, cap, err]: bytes written, capacity, sticky err *)
(***************************************************************************)
EXTENDS Integers, Sequences, FiniteSets, TLC

\* ------------------------------------------------------------------ bounds
\* Longest Merkle branch the generated AuxPoW payloads carry.
MaxBranchLen == 2
\* Longest Merkle branch handed to MerkleBranch.Check.
MaxCheckLen == 3
\* Chain identifiers k around zero: -MaxChainK .. MaxChainK.
MaxChainK == 3

\* --------------------------------------------------------------- constants
HashSize == 32
MaxBlockHeaderPayloadNoAuxpow == 16 + (HashSize * 2)
BlockVersionAuxpow == 2 ^ 8
BlockVersionChainStart == 2 ^ 16

Nil == "nil"
\* A pointer is the empty sequence (nil) or the one-element sequence of what
\* it points to.
NilPtr == <<>>
Ptr(x) == <<x>>
Deref(p) == p[1]
NoErr == "nil"
EOF == "EOF"
ErrUnexpectedEOF == "unexpected EOF"
ErrShortWrite == "short write"
ErrNonCanonicalVarInt == "non-canonical varint"
ErrScryptParams == "scrypt: parameters are invalid"

\* ------------------------------------------------------- fixed-width ints
Half == 2 ^ 16
MinInt32 == -2147483647 - 1

U32(hi, lo) == [hi |-> hi, lo |-> lo]

\* uint32(x) for an int32 x: the two's complement bit pattern.
Uint32OfInt32(x) == U32((x \div Half) % Half, x % Half)

\* int32(u) for a uint32 u.
Int32OfUint32(u) ==
  IF u.hi >= Half \div 2 THEN (u.hi - Half) * Half + u.lo ELSE u.hi * Half + u.lo

\* uint32(x) for an int64 x: the low 32 bits.
Uint32OfInt64(x) == U32(x.hi % Half, x.lo)

\* littleEndian.PutUint32
PutUint32(u) == <<u.lo % 256, u.lo \div 256, u.hi % 256, u.hi \div 256>>

\* littleEndian.Uint32
GetUint32(b) == U32(b[3] + 256 * b[4], b[1] + 256 * b[2])

\* Go's x / y on signed integers truncates toward zero (y > 0 here).
GoDiv(x, y) ==
  IF x >= 0 \/ x % y = 0 THEN x \div y ELSE (x \div y) + 1

\* ------------------------------------------------------------------- time
\* time.Time as Unix seconds (int64) and nanoseconds within the second.
Time(sec, nsec) == [sec |-> sec, nsec |-> nsec]

\* time.Unix(sec, 0) for a uint32 sec
TimeUnix(u) == Time(u, 0)

\* Time.Unix()
UnixOf(t) == t.sec

\* time.Time{}: January 1, year 1, 00:00:00 UTC = -62135596800 Unix seconds.
ZeroTime == Time(U32(-948114, 2304), 0)

\* ---------------------------------------------------------------- streams
\* An io.Writer.  cap = Unlimited is a bytes.Buffer, which never fails; a
\* writer of capacity c fails the write that would exceed c bytes.
Unlimited == -1
NewWriter(cap) == [data |-> <<>>, cap |-> cap, err |-> NoErr]

\* w.Write(bs).  After a failed write nothing more is written: every caller
\* returns on the first error.
Write(w, bs) ==
  IF w.err # NoErr THEN w
  ELSE IF w.cap = Unlimited \/ Len(w.data) + Len(bs) <= w.cap
       THEN [w EXCEPT !.data = @ \o bs]
       ELSE [w EXCEPT !.data = @ \o SubSeq(bs, 1, w.cap - Len(w.data)),
                      !.err = ErrShortWrite]

\* A decode in progress: err the first error, r the stream left, buf the
\* bytes of the last read, n the last count read, val the struct being
\* filled.  After an error nothing more is read: every caller returns on
\* the first error.
NewReader(r, val) == [err |-> NoErr, r |-> r, buf |-> <<>>, n |-> 0, val |-> val]

\* io.ReadFull(r, buf[:n]): the bytes read, what is left, and EOF when nothing
\* could be read or ErrUnexpectedEOF when the stream ended inside the element.
ReadFull(st, n) ==
  IF st.err # NoErr THEN st
  ELSE IF Len(st.r) >= n
  THEN [st EXCEPT !.buf = SubSeq(st.r, 1, n), !.r = SubSeq(st.r, n + 1, Len(st.r))]
  ELSE [st EXCEPT !.err = IF Len(st.r) = 0 /\ n > 0 THEN EOF ELSE ErrUnexpectedEOF,
                  !.buf = st.r, !.r = <<>>]

\* --------------------------------------------------- readElement/writeElement
\* writeElement for int32, uint32 and chainhash.Hash values.
writeElementInt32(w, x) == Write(w, PutUint32(Uint32OfInt32(x)))
writeElementUint32(w, u) == Write(w, PutUint32(u))
writeElementHash(w, hash) == Write(w, hash)

\* readElement(r, &val.f) for an int32 field: the destination is assigned
\* only on success.
readElementInt32(st, f) ==
  LET Set(rd) == IF rd.err # NoErr THEN rd
                 ELSE [rd EXCEPT !.val[f] = Int32OfUint32(GetUint32(rd.buf))]
  IN  Set(ReadFull(st, 4))

\* readElement(r, &val.f) for a uint32 field
readElementUint32(st, f) ==
  LET Set(rd) == IF rd.err # NoErr THEN rd
                 ELSE [rd EXCEPT !.val[f] = GetUint32(rd.buf)]
  IN  Set(ReadFull(st, 4))

\* readElement(r, (*uint32Time)(&val.f))
readElementUint32Time(st, f) ==
  LET Set(rd) == IF rd.err # NoErr THEN rd
                 ELSE [rd EXCEPT !.val[f] = TimeUnix(GetUint32(rd.buf))]
  IN  Set(ReadFull(st, 4))

\* readElement(r, &val.f) for a chainhash.Hash field reads straight into the
\* destination array: a short read leaves the bytes it got in front of the
\* old tail.
readElementHash(st, f) ==
  LET Set(rd) == [rd EXCEPT !.val[f] = rd.buf \o SubSeq(@, Len(rd.buf) + 1, HashSize)]
  IN  IF st.err # NoErr THEN st ELSE Set(ReadFull(st, HashSize))

\* ------------------------------------------------------------------ varint
VarIntSerializeSize(val) ==
  IF val < 253 THEN 1
  ELSE IF val < Half THEN 3
  ELSE 5

\* WriteVarInt for the counts of the model (below 2^31).
WriteVarInt(w, val) ==
  IF val < 253 THEN Write(w, <<val>>)
  ELSE IF val < Half THEN Write(Write(w, <<253>>), <<val % 256, val \div 256>>)
  ELSE Write(Write(w, <<254>>), PutUint32(U32(val \div Half, val % Half)))

\* ReadVarInt into st.n: the discriminant byte, then the 2 or 4 byte value,
\* which must not fit the shorter form.  The 8-byte form and 4-byte values of
\* 2^31 and more lie beyond the integers of the model and are reported
\* non-canonical.
ReadVarInt(st) ==
  LET Two(b) ==
        IF b.err # NoErr THEN b
        ELSE IF b.buf[1] + 256 * b.buf[2] < 253
        THEN [b EXCEPT !.err = ErrNonCanonicalVarInt]
        ELSE [b EXCEPT !.n = b.buf[1] + 256 * b.buf[2]]
      Four(b) ==
        IF b.err # NoErr THEN b
        ELSE IF GetUint32(b.buf).hi = 0 \/ GetUint32(b.buf).hi >= Half \div 2
        THEN [b EXCEPT !.err = ErrNonCanonicalVarInt]
        ELSE [b EXCEPT !.n = GetUint32(b.buf).hi * Half + GetUint32(b.buf).lo]
      Eight(b) ==
        IF b.err # NoErr THEN b ELSE [b EXCEPT !.err = ErrNonCanonicalVarInt]
      Value(d) ==
        IF d.err # NoErr THEN d
        ELSE IF d.buf[1] < 253 THEN [d EXCEPT !.n = d.buf[1]]
        ELSE IF d.buf[1] = 253 THEN Two(ReadFull(d, 2))
        ELSE IF d.buf[1] = 254 THEN Four(ReadFull(d, 4))
        ELSE Eight(ReadFull(d, 8))
  IN  Value(ReadFull(st, 1))

\* ------------------------------------------------------------------- MsgTx
\* A transaction without inputs: Version, the outputs (Value as two uint32
\* words, low word first, and PkScript) and LockTime.
MsgTx(version, txout, locktime) ==
  [Version |-> version, TxOut |-> txout, LockTime |-> locktime]
TxOut(lo, hi, script) == [ValueLo |-> lo, ValueHi |-> hi, PkScript |-> script]
ZeroTx == MsgTx(0, <<>>, U32(0, 0))

writeTxOut(w, to) ==
  Write(WriteVarInt(writeElementUint32(writeElementUint32(w, to.ValueLo), to.ValueHi),
                    Len(to.PkScript)),
        to.PkScript)

RECURSIVE writeTxOuts(_, _, _)
writeTxOuts(w, outs, i) ==
  IF i > Len(outs) THEN w ELSE writeTxOuts(writeTxOut(w, outs[i]), outs, i + 1)

\* MsgTx.SerializeNoWitness
SerializeNoWitness(w, tx) ==
  LET w1 == writeElementInt32(w, tx.Version)
      w2 == WriteVarInt(w1, 0)
      w3 == WriteVarInt(w2, Len(tx.TxOut))
      w4 == writeTxOuts(w3, tx.TxOut, 1)
  IN  writeElementUint32(w4, tx.LockTime)

\* The script of an output: its length, then its bytes.
readPkScript(st) ==
  LET Set(sc) == IF sc.err # NoErr THEN sc ELSE [sc EXCEPT !.val.PkScript = sc.buf]
      Script(c) == Set(ReadFull(c, c.n))
  IN  Script(ReadVarInt(st))

\* readTxOut into a new output, appended to val.TxOut on success.
readTxOut(st) ==
  LET Add(o) == IF o.err # NoErr THEN [o EXCEPT !.val = st.val]
                ELSE [o EXCEPT !.val = [st.val EXCEPT !.TxOut = Append(@, o.val)]]
  IN  Add(readPkScript(
        readElementUint32(
          readElementUint32([st EXCEPT !.val = TxOut(U32(0, 0), U32(0, 0), <<>>)],
                            "ValueLo"),
          "ValueHi")))

RECURSIVE readTxOuts(_, _)
readTxOuts(st, count) ==
  IF st.err # NoErr \/ Len(st.val.TxOut) = count THEN st
  ELSE readTxOuts(readTxOut(st), count)

RECURSIVE skipTxIns(_, _)
\* An input is a 36-byte outpoint, a script and a 4-byte sequence number.
skipTxIns(st, count) ==
  LET Script(c) == ReadFull(c, c.n + 4)
  IN  IF st.err # NoErr \/ count = 0 THEN st
      ELSE skipTxIns(Script(ReadVarInt(ReadFull(st, HashSize + 4))), count - 1)

\* The inputs of MsgTx.BtcDecode: the count, then each input.
readTxIns(st) ==
  LET Loop(c) == skipTxIns(c, c.n)
  IN  Loop(ReadVarInt(st))

\* The outputs of MsgTx.BtcDecode: the count, then each output.
readTxOutputs(st) ==
  LET Loop(c) == readTxOuts(c, c.n)
  IN  Loop(ReadVarInt(st))

\* MsgTx.DeserializeNoWitness: version, inputs, outputs, lock time.  The
\* model's transactions have no inputs; the inputs of a decoded stream are
\* consumed but not retained.
DeserializeNoWitness(r) ==
  readElementUint32(
    readTxOutputs(readTxIns(readElementInt32(NewReader(r, ZeroTx), "Version"))),
    "LockTime")

RECURSIVE SumTxOutSizes(_, _)
SumTxOutSizes(outs, i) ==
  IF i > Len(outs) THEN 0
  ELSE 8 + VarIntSerializeSize(Len(outs[i].PkScript)) + Len(outs[i].PkScript)
       + SumTxOutSizes(outs, i + 1)

\* MsgTx.SerializeSizeStripped
SerializeSizeStripped(tx) ==
  8 + VarIntSerializeSize(0) + VarIntSerializeSize(Len(tx.TxOut))
    + SumTxOutSizes(tx.TxOut, 1)

\* ------------------------------------------------------------------ hashes
\* Stand-ins for SHA-256 and scrypt: order-sensitive checksums spread over
\* all bytes of the digest.  Equal inputs give equal digests; the digests of
\* different inputs differ except for collisions of the checksum.
RECURSIVE Mix(_, _, _, _)
\* The position-weighted sum of bs[lo..hi], folded by halves.
Mix(bs, lo, hi, mul) ==
  IF lo > hi THEN 0
  ELSE IF lo = hi THEN ((bs[lo] + 1) * ((lo * lo * mul + lo * 17 + 1) % 251)) % 65521
  ELSE LET mid == (lo + hi) \div 2
       IN  (Mix(bs, lo, mid, mul) + Mix(bs, mid + 1, hi, mul)) % 65521

Digest(bs, mul, n) ==
  LET a == (Mix(bs, 1, Len(bs), mul) + Len(bs) * mul) % 65521
  IN  [i \in 1..n |-> (a * i + (a \div 256) + i) % 256]

\* chainhash.HashB
HashB(bs) == Digest(bs, 31, HashSize)

\* chainhash.DoubleHashH: two sequential applications of the hash.
DoubleHashH(bs) == HashB(HashB(bs))

IsPowerOfTwo(n) == \E k \in 0..30 : n = 2 ^ k

\* scrypt.Key(password, salt, N, r, p, keyLen)
scryptKey(password, salt, N, r, p, keyLen) ==
  IF N <= 1 \/ ~IsPowerOfTwo(N) \/ r * p >= 2 ^ 30
  THEN [err |-> ErrScryptParams, val |-> Nil]
  ELSE [err |-> NoErr,
        val |-> Digest(Digest(password, 37, HashSize) \o salt, 41 + (N % 7) + r + p, keyLen)]

ZeroHash == [i \in 1..HashSize |-> 0]

\* --------------------------------------------------------------- data types
MerkleBranch(branch, index) == [Branch |-> branch, Index |-> index]

BlockHeader(version, prev, root, ts, bits, nonce, auxpow) ==
  [Version |-> version, PrevBlock |-> prev, MerkleRoot |-> root,
   Timestamp |-> ts, Bits |-> bits, Nonce |-> nonce, Auxpow |-> auxpow]

Auxpow(tx, parentHash, cb, bc, parent) ==
  [CoinbaseTxn |-> tx, ParentBlockHash |-> parentHash, CoinbaseBranch |-> cb,
   BlockchainBranch |-> bc, ParentBlock |-> parent]

\* BlockHeader{} and Auxpow{}
ZeroHeader ==
  BlockHeader(0, ZeroHash, ZeroHash, ZeroTime, U32(0, 0), U32(0, 0), NilPtr)
ZeroAuxpow ==
  Auxpow(ZeroTx, ZeroHash, MerkleBranch(<<>>, 0), MerkleBranch(<<>>, 0), ZeroHeader)

\* The six fields of the 80-byte core.
Core(bh) == [bh EXCEPT !.Auxpow = NilPtr]

\* ------------------------------------------------------------- introspection
IsAuxpow(bh) == (bh.Version \div BlockVersionAuxpow) % 2 # 0

\* A slip GetChainId could have: the arithmetic shift in place of the division.
GetChainIdFloor(bh) == Uint32OfInt32(bh.Version \div BlockVersionChainStart)

GetChainId(bh) == Uint32OfInt32(GoDiv(bh.Version, BlockVersionChainStart))

\* A slip Auxpow.SerializeSize could have: one byte for each branch count.
AuxpowSerializeSizeOneByteCounts(a) ==
  SerializeSizeStripped(a.CoinbaseTxn)
  + HashSize * (1 + Len(a.CoinbaseBranch.Branch) + Len(a.BlockchainBranch.Branch))
  + 1 + 1
  + 4 * 2
  + MaxBlockHeaderPayloadNoAuxpow

AuxpowSerializeSize(a) ==
  SerializeSizeStripped(a.CoinbaseTxn)
  + HashSize * (1 + Len(a.CoinbaseBranch.Branch) + Len(a.BlockchainBranch.Branch))
  + VarIntSerializeSize(Len(a.CoinbaseBranch.Branch))
  + VarIntSerializeSize(Len(a.BlockchainBranch.Branch))
  + 4 * 2
  + MaxBlockHeaderPayloadNoAuxpow

SerializeSize(bh) ==
  IF ~IsAuxpow(bh) \/ bh.Auxpow = NilPtr
  THEN MaxBlockHeaderPayloadNoAuxpow
  ELSE MaxBlockHeaderPayloadNoAuxpow + AuxpowSerializeSize(Deref(bh.Auxpow))

\* ------------------------------------------------------------------ encode
\* A slip writeBlockHeaderNoAuxpow could have: the nonce ahead of the bits.
writeBlockHeaderNoAuxpowNonceFirst(w, bh) ==
  LET sec == Uint32OfInt64(UnixOf(bh.Timestamp))
      w1 == writeElementInt32(w, bh.Version)
      w2 == writeElementHash(w1, bh.PrevBlock)
      w3 == writeElementHash(w2, bh.MerkleRoot)
      w4 == writeElementUint32(w3, sec)
      w5 == writeElementUint32(w4, bh.Nonce)
  IN  writeElementUint32(w5, bh.Bits)

writeBlockHeaderNoAuxpow(w, bh) ==
  LET sec == Uint32OfInt64(UnixOf(bh.Timestamp))
      w1 == writeElementInt32(w, bh.Version)
      w2 == writeElementHash(w1, bh.PrevBlock)
      w3 == writeElementHash(w2, bh.MerkleRoot)
      w4 == writeElementUint32(w3, sec)
      w5 == writeElementUint32(w4, bh.Bits)
  IN  writeElementUint32(w5, bh.Nonce)

\* for i := uint64(0); i < count; i++ { err = writeElement(w, branch[i]) ... }
\* over the slots lo..hi, in order; the loop ends at the first error.  The
\* range is split in halves to keep the evaluation shallow on long branches.
RECURSIVE writeBranchHashes(_, _, _, _)
writeBranchHashes(w, branch, lo, hi) ==
  IF lo > hi \/ w.err # NoErr THEN w
  ELSE IF lo = hi THEN writeElementHash(w, branch[lo])
  ELSE LET mid == (lo + hi) \div 2
       IN  writeBranchHashes(writeBranchHashes(w, branch, lo, mid), branch, mid + 1, hi)

\* Each step's `if err != nil { return err }` is the writer's refusal to write
\* after its first error: w comes back as the failed step left it.
writeAuxpow(w, bh) ==
  IF bh.Auxpow = NilPtr THEN w ELSE
  LET ap == Deref(bh.Auxpow)
      cb == ap.CoinbaseBranch.Branch
      bc == ap.BlockchainBranch.Branch
      w1 == SerializeNoWitness(w, ap.CoinbaseTxn)
      w2 == writeElementHash(w1, ap.ParentBlockHash)
      w3 == WriteVarInt(w2, Len(cb))
      w4 == writeBranchHashes(w3, cb, 1, Len(cb))
      w5 == writeElementInt32(w4, ap.CoinbaseBranch.Index)
      w6 == WriteVarInt(w5, Len(bc))
      w7 == writeBranchHashes(w6, bc, 1, Len(bc))
      w8 == writeElementInt32(w7, ap.BlockchainBranch.Index)
  IN  writeBlockHeaderNoAuxpow(w8, ap.ParentBlock)

writeBlockHeader(w, bh) ==
  LET w1 == writeBlockHeaderNoAuxpow(w, bh) IN
  IF w1.err # NoErr THEN w1
  ELSE IF IsAuxpow(bh) THEN writeAuxpow(w1, bh)
  ELSE w1

\* ------------------------------------------------------------------ decode
\* readElements(r, &bh.Version, &bh.PrevBlock, &bh.MerkleRoot,
\*              (*uint32Time)(&bh.Timestamp), &bh.Bits, &bh.Nonce):
\* the elements are read in order into the fields of bh; the first failure
\* ends the call, the fields read before it stay overwritten.
readCoreElements(st) ==
  readElementUint32(
    readElementUint32(
      readElementUint32Time(
        readElementHash(
          readElementHash(readElementInt32(st, "Version"), "PrevBlock"),
          "MerkleRoot"),
        "Timestamp"),
      "Bits"),
    "Nonce")

\* for i := uint64(0); i < count; i++ { err = readElement(r, &Branch[i]) ... }
\* over the slots lo..hi of val.Branch, in order, ending at the first error.
\* The range is split in halves to keep the evaluation shallow on long
\* branches.
RECURSIVE readBranchHashes(_, _, _)
readBranchHashes(st, lo, hi) ==
  LET Set(e) ==
        [e EXCEPT !.val.Branch[lo] = e.buf \o SubSeq(@, Len(e.buf) + 1, HashSize)]
  IN  IF lo > hi \/ st.err # NoErr THEN st
      ELSE IF lo = hi THEN Set(ReadFull(st, HashSize))
      ELSE readBranchHashes(readBranchHashes(st, lo, (lo + hi) \div 2),
                            ((lo + hi) \div 2) + 1, hi)

\* make([]chainhash.Hash, count)
MakeHashes(count) == [i \in 1..count |-> ZeroHash]

\* One branch of readAuxpow into ap.f: the count, the slice and its hashes,
\* the index.
readMerkleBranch(st, f) ==
  LET Put(b) == [b EXCEPT !.val = [st.val EXCEPT ![f] = b.val]]
      Slots(c) == IF c.err # NoErr THEN c
                  ELSE readBranchHashes([c EXCEPT !.val.Branch = MakeHashes(c.n)], 1, c.n)
  IN  Put(readElementInt32(Slots(ReadVarInt([st EXCEPT !.val = st.val[f]])), "Index"))

\* The parent header of readAuxpow: readElements into ap.ParentBlock.
readParentBlock(st) ==
  LET Put(pb) == [pb EXCEPT !.val = [st.val EXCEPT !.ParentBlock = pb.val]]
  IN  Put(readCoreElements([st EXCEPT !.val = st.val.ParentBlock]))

\* The body of readAuxpow on the local ap := Auxpow{}: the payload as far as
\* it was read, and the error that ended the reading.
readAuxpowPayload(r) ==
  LET Tx(t) == [t EXCEPT !.val = [ZeroAuxpow EXCEPT !.CoinbaseTxn = t.val]]
  IN  readParentBlock(
        readMerkleBranch(
          readMerkleBranch(
            readElementHash(Tx(DeserializeNoWitness(r)), "ParentBlockHash"),
            "CoinbaseBranch"),
          "BlockchainBranch"))

\* A slip readAuxpow could have: bh.Auxpow = &ap before the payload is read.
readAuxpowAttachFirst(st) ==
  LET Attach(p) == [p EXCEPT !.val = [st.val EXCEPT !.Auxpow = Ptr(p.val)]]
  IN  IF ~IsAuxpow(st.val) THEN st ELSE Attach(readAuxpowPayload(st.r))

\* readAuxpow on the header read so far: bh.Auxpow = &ap only after the whole
\* payload was read.
readAuxpow(st) ==
  LET Attach(p) == IF p.err # NoErr THEN [p EXCEPT !.val = st.val]
                   ELSE [p EXCEPT !.val = [st.val EXCEPT !.Auxpow = Ptr(p.val)]]
  IN  IF ~IsAuxpow(st.val) THEN st ELSE Attach(readAuxpowPayload(st.r))

readBlockHeader(r, bh) ==
  LET Rest(c) == IF c.err # NoErr THEN c ELSE readAuxpow(c)
  IN  Rest(readCoreElements(NewReader(r, bh)))

\* --------------------------------------------------------------- hashing
\* A slip the hashes could have: the whole header in the hashed buffer.
CoreBufferWithAuxpow(bh) == writeBlockHeader(NewWriter(Unlimited), bh).data

\* buf := bytes.NewBuffer(...); _ = writeBlockHeaderNoAuxpow(buf, 0, h)
CoreBuffer(bh) == writeBlockHeaderNoAuxpow(NewWriter(Unlimited), bh).data

BlockHash(bh) == DoubleHashH(CoreBuffer(bh))

PowHash(bh) ==
  LET k == scryptKey(CoreBuffer(bh), CoreBuffer(bh), 1024, 1, 1, 32)
  IN  IF k.err # NoErr THEN [val |-> Nil, err |-> k.err]
      ELSE [val |-> [i \in 1..HashSize |-> k.val[i]], err |-> NoErr]

\* ------------------------------------------------------------ MerkleBranch
\* A slip Check could have: the two halves the other way round.
MerkleScratchSwapped(idx, it, thash) ==
  IF idx % 2 # 0 THEN thash \o it ELSE it \o thash

\* One pass of the loop body: the 64 bytes hashed at a level.
MerkleScratch(idx, it, thash) ==
  IF idx % 2 # 0 THEN it \o thash ELSE thash \o it

RECURSIVE CheckLoop(_, _, _, _)
CheckLoop(branch, i, idx, thash) ==
  IF i > Len(branch) THEN thash
  ELSE CheckLoop(branch, i + 1, idx \div 2,
                 DoubleHashH(MerkleScratch(idx, branch[i], thash)))

\* A slip Check could have: the cursor never shifted.
RECURSIVE CheckLoopNoShift(_, _, _, _)
CheckLoopNoShift(branch, i, idx, thash) ==
  IF i > Len(branch) THEN thash
  ELSE CheckLoopNoShift(branch, i + 1, idx,
                        DoubleHashH(MerkleScratch(idx, branch[i], thash)))

CheckNoShift(b, hash) ==
  IF b.Index = -1 THEN ZeroHash
  ELSE CheckLoopNoShift(b.Branch, 1, b.Index, hash)

Check(b, hash) ==
  IF b.Index = -1 THEN ZeroHash
  ELSE CheckLoop(b.Branch, 1, b.Index, hash)

CheckAndRevert(b, hash) ==
  LET thash == Check(b, hash)
  IN  [i \in 1..HashSize |-> thash[HashSize + 1 - i]]

\* ----------------------------------------------------------- entry points
\* GetBlockHeaderSize(raw): the error of readBlockHeader is dropped.
GetBlockHeaderSize(raw) == SerializeSize(readBlockHeader(raw, ZeroHeader).val)

\* ------------------------------------------------------------------ inputs
\* Hash values whose bytes all differ from one position to the next.
HashOf(c) == [i \in 1..HashSize |-> (c * 16 + i) % 256]

\* Timestamps: whole seconds inside the uint32 range, a fraction of a second,
\* and a time beyond the uint32 range.
T0 == Time(U32(24414, 4096), 0)
TMax == Time(U32(Half - 1, Half - 1), 0)
TFrac == Time(U32(24414, 4096), 500000000)
TWide == Time(U32(Half + 3, 7), 0)

InContract(t) == t.nsec = 0 /\ t.sec.hi \in 0..(Half - 1)

TxA == MsgTx(1, <<>>, U32(0, 0))
TxB == MsgTx(2, <<TxOut(U32(11, 50000), U32(0, 1), <<118, 169, 20>>), TxOut(U32(0, 0), U32(0, 0), <<>>)>>,
             U32(Half - 1, 65534))

\* Parent headers: plain, with the AuxPoW flag set in its own version, and one
\* that itself carries a payload (which the core form never writes).
ParentA == BlockHeader(2, HashOf(5), HashOf(6), T0, U32(7424, 65535), U32(4660, 22136), NilPtr)
ParentB == BlockHeader(6422787, HashOf(6), HashOf(5), TMax, U32(0, 1), U32(Half - 1, 0), NilPtr)
ParentC == [ParentA EXCEPT !.Auxpow = Ptr(ZeroAuxpow)]

BranchOf(c, n) == [i \in 1..n |-> HashOf(c + i)]

\* One payload per pair of branch lengths; the transaction, the indices and
\* the parent header vary with the lengths.
AuxOf(n1, n2) ==
  Auxpow(IF n1 % 2 = 0 THEN TxA ELSE TxB,
         HashOf(3),
         MerkleBranch(BranchOf(8, n1), IF n2 = 0 THEN 0 ELSE IF n2 = 1 THEN -1 ELSE 5),
         MerkleBranch(BranchOf(12, n2), IF n1 = 0 THEN MinInt32 ELSE n1 + 1),
         IF (n1 + n2) % 3 = 0 THEN ParentA ELSE IF (n1 + n2) % 3 = 1 THEN ParentB ELSE ParentC)

AuxSet == { AuxOf(n1, n2) : n1 \in 0..MaxBranchLen, n2 \in 0..MaxBranchLen }

\* Cores: flag clear and set, negative versions with the flag set and clear,
\* and timestamps outside the contract.
CoreSet ==
  { BlockHeader(1, HashOf(1), HashOf(2), T0, U32(7424, 65535), U32(0, 0), NilPtr),
    BlockHeader(257, HashOf(2), HashOf(1), TMax, U32(Half - 1, Half - 1), U32(32768, 0), NilPtr),
    BlockHeader(-255, HashOf(1), HashOf(2), T0, U32(0, 1), U32(1, 0), NilPtr),
    BlockHeader(MinInt32, HashOf(1), ZeroHash, TMax, U32(0, 0), U32(0, 255), NilPtr),
    BlockHeader(6422787, HashOf(2), HashOf(1), TFrac, U32(7424, 65535), U32(0, 256), NilPtr),
    BlockHeader(259, HashOf(1), HashOf(2), TWide, U32(7424, 65535), U32(256, 0), NilPtr) }

CodecHeaders ==
  { [c EXCEPT !.Auxpow = a] : c \in CoreSet, a \in {Ptr(x) : x \in AuxSet} \cup {NilPtr} }

\* ------------------------------------------------------------------- state
VARIABLES
  h,      \* the receiver: the header the methods are called on
  src,    \* the header last encoded
  wire,   \* the bytes the last encode wrote
  op,     \* the last operation
  pre,    \* the receiver before the last operation
  ret,    \* what the last operation returned: [val, err]
  inner,  \* the error of its underlying read, write or key-derivation step
  mb,     \* a MerkleBranch
  leaf    \* the hash handed to MerkleBranch.Check

vars == <<h, src, wire, op, pre, ret, inner, mb, leaf>>

Ret(val, err) == [val |-> val, err |-> err]

InitWith(h0) ==
  /\ h = h0
  /\ src = ZeroHeader
  /\ wire = <<>>
  /\ op = "new"
  /\ pre = h0
  /\ ret = Ret(Nil, NoErr)
  /\ inner = NoErr
  /\ mb = MerkleBranch(<<>>, 0)
  /\ leaf = ZeroHash

\* ------------------------------------------------------- codec operations
\* s.Serialize(w) / s.BtcEncode(w, pver, enc) of a header s into a writer of
\* capacity cap: unlimited, or, with short, every capacity up to the full
\* encoding, all but the last of which cut it short.
SerializeFrom(S, short) ==
  \E s \in S :
    \E cap \in IF short THEN 0..SerializeSize(s) ELSE {Unlimited} :
      LET w == writeBlockHeader(NewWriter(cap), s)
      IN  /\ src' = s
          /\ wire' = w.data
          /\ op' = "Serialize"
          /\ ret' = Ret(Nil, w.err)
          /\ inner' = w.err
          /\ pre' = h
          /\ UNCHANGED <<h, mb, leaf>>

\* h.Deserialize(r) / h.BtcDecode(r, pver, enc) of the written bytes.
Deserialize ==
  /\ op = "Serialize"
  /\ LET rd == readBlockHeader(wire, h)
     IN  /\ h' = rd.val
         /\ ret' = Ret(Nil, rd.err)
         /\ inner' = rd.err
  /\ pre' = h
  /\ op' = "Deserialize"
  /\ UNCHANGED <<src, wire, mb, leaf>>

\* Decoding goes on into the same receiver with the next header's bytes.
NextHeader ==
  /\ op = "Deserialize"
  /\ ret.err = NoErr
  /\ SerializeFrom(CodecHeaders, FALSE)

\* A fresh receiver: h := BlockHeader{}
NewReceiver ==
  /\ op # "new"
  /\ h' = ZeroHeader
  /\ pre' = ZeroHeader
  /\ op' = "new"
  /\ wire' = <<>>
  /\ src' = ZeroHeader
  /\ ret' = Ret(Nil, NoErr)
  /\ inner' = NoErr
  /\ UNCHANGED <<mb, leaf>>

FirstHeader ==
  /\ op = "new"
  /\ SerializeFrom(CodecHeaders, FALSE)

InitCodec == InitWith(ZeroHeader)
NextCodec == FirstHeader \/ Deserialize \/ NextHeader \/ NewReceiver
SpecCodec == InitCodec /\ [][NextCodec]_vars

\* C1: a header with a timestamp of whole seconds in the uint32 range, either
\* without the flag and without payload or with the flag and a payload
\* (branches of any length), decodes from its own encoding into a fresh
\* header without error, and every field comes back: the six core fields,
\* the coinbase transaction, the parent block hash, both branches with their
\* hashes and indices, and the six core fields of the parent header.
RoundTripInput(s) ==
  /\ InContract(s.Timestamp)
  /\ \/ ~IsAuxpow(s) /\ s.Auxpow = NilPtr
     \/ /\ IsAuxpow(s)
        /\ s.Auxpow # NilPtr
        /\ InContract(Deref(s.Auxpow).ParentBlock.Timestamp)

SameFields(a, b) ==
  /\ a.Version = b.Version
  /\ a.PrevBlock = b.PrevBlock
  /\ a.MerkleRoot = b.MerkleRoot
  /\ a.Timestamp = b.Timestamp
  /\ a.Bits = b.Bits
  /\ a.Nonce = b.Nonce
  /\ (a.Auxpow = NilPtr) = (b.Auxpow = NilPtr)
  /\ a.Auxpow # NilPtr /\ b.Auxpow # NilPtr =>
       LET x == Deref(a.Auxpow)
           y == Deref(b.Auxpow)
       IN  /\ x.CoinbaseTxn = y.CoinbaseTxn
           /\ x.ParentBlockHash = y.ParentBlockHash
           /\ x.CoinbaseBranch = y.CoinbaseBranch
           /\ x.BlockchainBranch = y.BlockchainBranch
           /\ Core(x.ParentBlock) = Core(y.ParentBlock)

C1_RoundTrip ==
  (op = "Deserialize" /\ pre = ZeroHeader /\ RoundTripInput(src))
    => (ret.err = NoErr /\ SameFields(h, src))

C1_Witness ==
  /\ op = "Deserialize"
  /\ pre = ZeroHeader
  /\ RoundTripInput(src)
  /\ IsAuxpow(src)
  /\ Len(Deref(src.Auxpow).CoinbaseBranch.Branch) > 1
  /\ Len(Deref(src.Auxpow).BlockchainBranch.Branch) = 0
  /\ src.Version < 0
  /\ h.Auxpow # NilPtr
  /\ ret.err = NoErr

\* C3: a header with the flag set and no payload encodes to the 80-byte core,
\* and decoding those 80 bytes into a fresh header returns no error and
\* leaves the payload nil.
C3_DegenerateDecodes ==
  (op = "Deserialize" /\ pre = ZeroHeader /\ IsAuxpow(src) /\ src.Auxpow = NilPtr)
    => (Len(wire) = 80 /\ ret.err = NoErr /\ h.Auxpow = NilPtr)

\* C9: after a successful decode the receiver has a payload exactly when the
\* version just decoded has the flag set, whatever the receiver held before.
C9_AuxpowFollowsFlag ==
  (op = "Deserialize" /\ ret.err = NoErr)
    => ((h.Auxpow # NilPtr) = IsAuxpow(h))

\* ---------------------------------------------------------------- sizes
\* The first length whose count takes the three-byte varint form.
LongBranchLen == 253

LongHeaders ==
  { [c EXCEPT !.Auxpow = Ptr([AuxOf(0, 1) EXCEPT !.CoinbaseBranch.Branch =
                                   BranchOf(0, LongBranchLen)])] :
      c \in {x \in CoreSet : x.Version \in {1, 257}} }

SizeHeaders == CodecHeaders \cup LongHeaders

SizeHeader ==
  /\ op \in {"new", "SerializeSize"}
  /\ SerializeFrom(SizeHeaders, FALSE)

\* src.SerializeSize()
Size ==
  /\ op = "Serialize"
  /\ ret' = Ret(SerializeSize(src), NoErr)
  /\ op' = "SerializeSize"
  /\ UNCHANGED <<h, src, wire, pre, inner, mb, leaf>>

InitSize == InitWith(ZeroHeader)
NextSize == SizeHeader \/ Size
SpecSize == InitSize /\ [][NextSize]_vars

\* C2: SerializeSize is the number of bytes the encoder writes, for the flag
\* set or clear, the payload present or absent and every pair of branch
\* lengths; Auxpow.SerializeSize is the number of bytes writeAuxpow appends;
\* and the size is 80 whenever no payload bytes are written.
C2_SizeMatches ==
  op = "SerializeSize" =>
    /\ ret.val = Len(wire)
    /\ src.Auxpow # NilPtr =>
         AuxpowSerializeSize(Deref(src.Auxpow))
           = Len(writeAuxpow(NewWriter(Unlimited), src).data)
    /\ (~IsAuxpow(src) \/ src.Auxpow = NilPtr) => ret.val = 80

C2_Witness ==
  /\ op = "SerializeSize"
  /\ IsAuxpow(src)
  /\ src.Auxpow # NilPtr
  /\ Len(Deref(src.Auxpow).CoinbaseBranch.Branch) = LongBranchLen
  /\ ret.val = Len(wire)
  /\ ret.val > 80 + HashSize * LongBranchLen

\* --------------------------------------------- short streams, short writers
\* Sources whose timestamps are inside the contract: without payload, the
\* flag set without payload, and two payloads with branches of every length.
TruncHeaders ==
  { [c EXCEPT !.Auxpow = a] :
      c \in {x \in CoreSet : x.Version = 1}, a \in {NilPtr} }
  \cup { [c EXCEPT !.Auxpow = a] :
      c \in {x \in CoreSet : x.Version = 257},
      a \in {NilPtr, Ptr(AuxOf(MaxBranchLen, 1))} }
  \cup { [c EXCEPT !.Auxpow = a] :
      c \in {x \in CoreSet : x.Version = -255},
      a \in {Ptr(AuxOf(0, MaxBranchLen))} }

\* Receivers: a fresh header and one that already holds a payload.
TruncReceivers ==
  { ZeroHeader,
    BlockHeader(258, HashOf(7), HashOf(9), TMax, U32(3, 4), U32(5, 6), Ptr(AuxOf(1, 1))) }

ShortWrite ==
  /\ op = "new"
  /\ SerializeFrom(TruncHeaders, TRUE)

\* GetBlockHeaderSize(raw) on the written bytes.
HeaderSize ==
  /\ op = "Serialize"
  /\ ret' = Ret(GetBlockHeaderSize(wire), NoErr)
  /\ inner' = readBlockHeader(wire, ZeroHeader).err
  /\ op' = "GetBlockHeaderSize"
  /\ UNCHANGED <<h, src, wire, pre, mb, leaf>>

\* src.PowHash()
Pow ==
  /\ op = "Serialize"
  /\ ret' = PowHash(src)
  /\ inner' = scryptKey(CoreBuffer(src), CoreBuffer(src), 1024, 1, 1, 32).err
  /\ op' = "PowHash"
  /\ UNCHANGED <<h, src, wire, pre, mb, leaf>>

\* The caller discards the header after an operation and takes another.
Renew ==
  /\ op # "new"
  /\ \E r \in TruncReceivers :
       /\ h' = r
       /\ pre' = r
  /\ op' = "new"
  /\ wire' = <<>>
  /\ src' = ZeroHeader
  /\ ret' = Ret(Nil, NoErr)
  /\ inner' = NoErr
  /\ UNCHANGED <<mb, leaf>>

InitTrunc == \E r \in TruncReceivers : InitWith(r)
NextTrunc == ShortWrite \/ Deserialize \/ HeaderSize \/ Pow \/ Renew
SpecTrunc == InitTrunc /\ [][NextTrunc]_vars

\* C7: whenever the underlying read, write or key derivation of an operation
\* fails, the operation returns that failure to its caller.
C7_FailuresPropagate ==
  inner # NoErr => ret.err = inner

\* C10: when the decode fails, the receiver's payload is what it was before
\* the call, although the core fields read before the failure are overwritten.
C10_FailedDecodeKeepsAuxpow ==
  (op = "Deserialize" /\ ret.err # NoErr) =>
    /\ h.Auxpow = pre.Auxpow
    /\ Len(wire) >= 80 => Core(h) = Core(src)

C10_Witness ==
  /\ op = "Deserialize"
  /\ ret.err # NoErr
  /\ Len(wire) > 80 + 200
  /\ pre.Auxpow # NilPtr
  /\ h.Auxpow = pre.Auxpow
  /\ Core(h) # Core(pre)

\* ------------------------------------------------------------ Merkle branch
MerkleHashes == {HashOf(1), HashOf(9)}
MerkleIndexes == {-1, 0, 1, 2, 3, 5, -2, MinInt32}
MerkleBranches ==
  { MerkleBranch(b, i) :
      b \in UNION { [1..n -> MerkleHashes] : n \in 0..MaxCheckLen },
      i \in MerkleIndexes }

\* mb.Check(leaf)
DoCheck ==
  /\ op = "new"
  /\ ret' = Ret(Check(mb, leaf), NoErr)
  /\ op' = "Check"
  /\ UNCHANGED <<h, src, wire, pre, inner, mb, leaf>>

\* mb.CheckAndRevert(leaf)
DoCheckAndRevert ==
  /\ op = "new"
  /\ ret' = Ret(CheckAndRevert(mb, leaf), NoErr)
  /\ op' = "CheckAndRevert"
  /\ UNCHANGED <<h, src, wire, pre, inner, mb, leaf>>

InitMerkle ==
  /\ h = ZeroHeader
  /\ src = ZeroHeader
  /\ wire = <<>>
  /\ op = "new"
  /\ pre = ZeroHeader
  /\ ret = Ret(Nil, NoErr)
  /\ inner = NoErr
  /\ mb \in MerkleBranches
  /\ leaf \in {HashOf(1), HashOf(4)}
NextMerkle == DoCheck \/ DoCheckAndRevert
SpecMerkle == InitMerkle /\ [][NextMerkle]_vars

\* C4: with one sibling s, Check(leaf) is doubleHash(leaf ++ s) for index 0
\* and doubleHash(s ++ leaf) for index 1.
C4_SingleLevel ==
  (op = "Check" /\ Len(mb.Branch) = 1 /\ mb.Index \in {0, 1}) =>
    ret.val = IF mb.Index = 0
              THEN DoubleHashH(leaf \o mb.Branch[1])
              ELSE DoubleHashH(mb.Branch[1] \o leaf)

C4_Witness ==
  /\ op = "Check"
  /\ Len(mb.Branch) = 1
  /\ mb.Index = 1
  /\ ret.val = DoubleHashH(mb.Branch[1] \o leaf)
  /\ ret.val # DoubleHashH(leaf \o mb.Branch[1])

\* The running hash after n levels, level i decided by bit i-1 of index:
\* with runningRight, a set bit hashes sibling ++ running and a clear bit
\* running ++ sibling; without it, the other way round.
RECURSIVE Fold(_, _, _, _, _)
Fold(branch, index, hash, n, runningRight) ==
  IF n = 0 THEN hash
  ELSE LET running == Fold(branch, index, hash, n - 1, runningRight)
           bit == (index \div (2 ^ (n - 1))) % 2
       IN  DoubleHashH(IF (bit = 1) = runningRight
                       THEN branch[n] \o running
                       ELSE running \o branch[n])

\* C5 as stated: for index # -1, each level hashes sibling ++ running when the
\* cursor's lowest bit is 0 and running ++ sibling when it is 1.
C5_AsStated ==
  (op = "Check" /\ mb.Index # -1) =>
    ret.val = Fold(mb.Branch, mb.Index, leaf, Len(mb.Branch), FALSE)

\* C5 as amended: for index # -1, level i hashes running ++ sibling when bit
\* i of index is 0 and sibling ++ running when it is 1; the result is the
\* running hash after the whole branch.
C5_Fold ==
  (op = "Check" /\ mb.Index # -1) =>
    ret.val = Fold(mb.Branch, mb.Index, leaf, Len(mb.Branch), TRUE)

C5_Witness ==
  /\ op = "Check"
  /\ Len(mb.Branch) = MaxCheckLen
  /\ mb.Index = 5
  /\ mb.Branch[1] # mb.Branch[2]
  /\ ret.val = Fold(mb.Branch, mb.Index, leaf, Len(mb.Branch), TRUE)
  /\ ret.val # Fold(mb.Branch, mb.Index, leaf, Len(mb.Branch), FALSE)

\* -------------------------------------------------------------- chain id
\* Versions 65536 * k + r around zero and at both ends of the int32 range.
ChainVersions ==
  { BlockVersionChainStart * k + r :
      k \in (-MaxChainK..MaxChainK) \cup {-32768, 32767},
      r \in {0, 1, 255, 256, 32768, 65535} }

\* h.GetChainId()
ChainId ==
  /\ op = "new"
  /\ ret' = Ret(GetChainId(h), NoErr)
  /\ op' = "GetChainId"
  /\ UNCHANGED <<h, src, wire, pre, inner, mb, leaf>>

InitChain == \E v \in ChainVersions : InitWith([ZeroHeader EXCEPT !.Version = v])
NextChain == ChainId
SpecChain == InitChain /\ [][NextChain]_vars

\* k mod 2^32 for k in -32768..32767, as a uint32.
ChainWord(k) ==
  [hi |-> IF k >= 0 THEN 0 ELSE 65535, lo |-> IF k >= 0 THEN k ELSE 65536 + k]

\* C6 as stated: for version = 65536 * k + r with 0 <= r < 65536, negative k
\* included, GetChainId returns k mod 2^32.
C6_AsStated ==
  op = "GetChainId" => ret.val = ChainWord(h.Version \div 65536)

\* C6 as amended: GetChainId returns k mod 2^32 when version >= 0 or r = 0,
\* and (k + 1) mod 2^32 when version < 0 and r > 0.
C6_ChainId ==
  op = "GetChainId" =>
    ret.val = IF h.Version >= 0 \/ h.Version % 65536 = 0
              THEN ChainWord(h.Version \div 65536)
              ELSE ChainWord((h.Version \div 65536) + 1)

C6_Witness ==
  /\ op = "GetChainId"
  /\ h.Version < 0
  /\ h.Version % 65536 # 0
  /\ h.Version \div 65536 < -1
  /\ ret.val = ChainWord((h.Version \div 65536) + 1)

\* ----------------------------------------------------------------- hashing
HashVersions == {1, 257, -255}
HashHashes == {HashOf(1), HashOf(2)}
HashTimes == {T0, TFrac, TMax}
HashWords == {U32(7424, 65535), U32(32768, 1)}
HashAuxpows == {NilPtr, Ptr(AuxOf(0, 0)), Ptr(AuxOf(1, 0))}

\* In-place mutation of one field of h.
Mutated(new) ==
  /\ h' = new
  /\ pre' = h
  /\ op' = "set"
  /\ ret' = Ret(Nil, NoErr)
  /\ UNCHANGED <<src, wire, inner, mb, leaf>>

SetVersion == \E v \in HashVersions : Mutated([h EXCEPT !.Version = v])
SetPrevBlock == \E v \in HashHashes : Mutated([h EXCEPT !.PrevBlock = v])
SetMerkleRoot == \E v \in HashHashes : Mutated([h EXCEPT !.MerkleRoot = v])
SetTimestamp == \E v \in HashTimes : Mutated([h EXCEPT !.Timestamp = v])
SetBits == \E v \in HashWords : Mutated([h EXCEPT !.Bits = v])
SetNonce == \E v \in HashWords : Mutated([h EXCEPT !.Nonce = v])
SetAuxpow == \E v \in HashAuxpows : Mutated([h EXCEPT !.Auxpow = v])

\* h.BlockHash()
DoBlockHash ==
  /\ op = "set"
  /\ ret' = Ret(BlockHash(h), NoErr)
  /\ op' = "BlockHash"
  /\ UNCHANGED <<h, src, wire, pre, inner, mb, leaf>>

\* h.PowHash()
DoPowHash ==
  /\ op = "set"
  /\ ret' = PowHash(h)
  /\ op' = "PowHash"
  /\ UNCHANGED <<h, src, wire, pre, inner, mb, leaf>>

InitHash ==
  InitWith(BlockHeader(1, HashOf(1), HashOf(1), T0, U32(7424, 65535),
                       U32(7424, 65535), NilPtr))
NextHash ==
  \/ SetVersion \/ SetPrevBlock \/ SetMerkleRoot \/ SetTimestamp
  \/ SetBits \/ SetNonce \/ SetAuxpow
  \/ DoBlockHash \/ DoPowHash
SpecHash == InitHash /\ [][NextHash]_vars

\* The 80 bytes of section 6 for the current field values.
Layout(bh) ==
  LET le(u) == <<u.lo % 256, u.lo \div 256, u.hi % 256, u.hi \div 256>>
      v == bh.Version
  IN  <<v % 256, (v \div 256) % 256, (v \div 65536) % 256, (v \div 16777216) % 256>>
      \o bh.PrevBlock \o bh.MerkleRoot
      \o le([hi |-> bh.Timestamp.sec.hi % 65536, lo |-> bh.Timestamp.sec.lo])
      \o le(bh.Bits) \o le(bh.Nonce)

\* The headers with the core fields of bh (timestamps alike to the second)
\* and any payload.
SameCore(bh) ==
  { [bh EXCEPT !.Auxpow = a, !.Timestamp.nsec = n] :
      a \in HashAuxpows, n \in {0, 500000000} }

\* C8: headers with equal core fields (timestamps in whole seconds) have equal
\* BlockHash and equal PowHash whatever payload they carry, and after any
\* mutations each hash is the hash of the 80-byte core encoding of the
\* current field values.
C8_HashesOfCoreOnly ==
  /\ op = "BlockHash" =>
       /\ \A g \in SameCore(h) : BlockHash(g) = ret.val
       /\ ret.val = DoubleHashH(Layout(h))
  /\ op = "PowHash" =>
       /\ ret.err = NoErr
       /\ \A g \in SameCore(h) : PowHash(g).val = ret.val
       /\ ret.val = scryptKey(Layout(h), Layout(h), 1024, 1, 1, 32).val

C8_Witness ==
  /\ op = "PowHash"
  /\ IsAuxpow(h)
  /\ h.Auxpow = Ptr(AuxOf(1, 0))
  /\ h.Timestamp = TFrac
  /\ pre.Nonce # h.Nonce
  /\ ret.val # PowHash(pre).val
  /\ ret.val = PowHash([h EXCEPT !.Auxpow = NilPtr]).val

====
